---- MODULE Spec2Model ----
(***************************************************************************)
(* Model of skills/user-feedback/scripts/user_feedback.py: a marker file   *)
(* whose first line holds a timestamp, with the three commands             *)
(* init_user_feedback, update_user_feedback and check_user_feedback.       *)
(*                                                                         *)
(* Text is modelled character by character: a string is a sequence of      *)
(* one-character strings, so the regular expressions, the normalisation of *)
(* the offset, datetime.fromisoformat and strftime are computed on the     *)
(* characters as the code computes them.  Times are integers counted in    *)
(* ticks, TicksPerSec ticks to the second, from the Unix epoch (UTC).      *)
(* The local time zone is a fixed offset tz (seconds east of UTC); zones   *)
(* with daylight-saving transitions are not modelled.  Files are written   *)
(* as on POSIX, where os.linesep is "\n".                                   *)
(***************************************************************************)
EXTENDS Integers, Sequences, FiniteSets, TLC

\* ---------------------------------------------------------------- bounds
\* Clock resolution: ticks per second.
TicksPerSec == 4
\* The clock runs for MaxTicks ticks after Start.
MaxTicks == 2
\* Longest delay, in ticks, between _now_timestamp() and the moment the
\* file system records the write of the same command.
MaxDelay == 2

\* ------------------------------------------------------------ characters
LF == "\n"
CR == "\r"
\* A byte that is not valid UTF-8, and the character U+FFFD that
\* errors="replace" decodes it to.
BADBYTE == "\\xff"
REPLCHAR == "U+FFFD"

Digits == <<"0", "1", "2", "3", "4", "5", "6", "7", "8", "9">>

IsDigit(c) == \E i \in 1..10 : Digits[i] = c

DigitVal(c) == (CHOOSE i \in 1..10 : Digits[i] = c) - 1

\* str.strip() whitespace, as far as the model's alphabet has it.
IsSpace(c) == c \in {" ", "\t", LF, CR}

RECURSIVE ToInt(_)
ToInt(s) == IF s = <<>> THEN 0
            ELSE 10 * ToInt(SubSeq(s, 1, Len(s) - 1)) + DigitVal(s[Len(s)])

RECURSIVE Pow10(_)
Pow10(n) == IF n = 0 THEN 1 ELSE 10 * Pow10(n - 1)

\* The decimal digits after a point as ticks (microsecond precision, as
\* datetime keeps it; whatever is finer than a tick is dropped).
FracTicks(digs) ==
    LET d == IF Len(digs) > 6 THEN SubSeq(digs, 1, 6) ELSE digs
    IN  (ToInt(d) * TicksPerSec) \div Pow10(Len(d))

\* n as exactly w decimal digits (strftime's %Y, %m, %d, %H, %M, %S).
RECURSIVE Pad(_, _)
Pad(n, w) == IF w = 0 THEN <<>>
             ELSE Append(Pad(n \div 10, w - 1), Digits[(n % 10) + 1])

RECURSIVE LStrip(_)
LStrip(s) == IF s # <<>> /\ IsSpace(s[1]) THEN LStrip(Tail(s)) ELSE s

RECURSIVE RStrip(_)
RStrip(s) == IF s # <<>> /\ IsSpace(s[Len(s)])
             THEN RStrip(SubSeq(s, 1, Len(s) - 1)) ELSE s

Strip(s) == RStrip(LStrip(s))

EndsWith(s, c) == s # <<>> /\ s[Len(s)] = c

\* ------------------------------------------------------------- calendar
\* datetime's proleptic Gregorian ordinal (0001-01-01 is day 1).
IsLeap(y) == y % 4 = 0 /\ (y % 100 # 0 \/ y % 400 = 0)

DaysInMonth(y, m) ==
    IF m = 2 THEN (IF IsLeap(y) THEN 29 ELSE 28)
    ELSE IF m \in {4, 6, 9, 11} THEN 30 ELSE 31

RECURSIVE DaysBeforeMonth(_, _)
DaysBeforeMonth(y, m) ==
    IF m = 1 THEN 0 ELSE DaysBeforeMonth(y, m - 1) + DaysInMonth(y, m - 1)

DaysBeforeYear(y) ==
    LET p == y - 1 IN p * 365 + (p \div 4) - (p \div 100) + (p \div 400)

Ymd2Ord(y, m, d) == DaysBeforeYear(y) + DaysBeforeMonth(y, m) + d

\* Ordinal of 1970-01-01.
EpochOrd == Ymd2Ord(1970, 1, 1)

\* datetime._ord2ymd
Ord2Ymd(ord) ==
    LET n0   == ord - 1
        n400 == n0 \div 146097
        r400 == n0 % 146097
        n100 == r400 \div 36524
        r100 == r400 % 36524
        n4   == r100 \div 1461
        r4   == r100 % 1461
        n1   == r4 \div 365
        n    == r4 % 365
        year == n400 * 400 + 1 + n100 * 100 + n4 * 4 + n1
    IN  IF n1 = 4 \/ n100 = 4
        THEN [y |-> year - 1, m |-> 12, d |-> 31]
        ELSE LET mg  == (n + 50) \div 32
                 m   == IF DaysBeforeMonth(year, mg) > n THEN mg - 1 ELSE mg
             IN  [y |-> year, m |-> m, d |-> n - DaysBeforeMonth(year, m) + 1]

\* ---------------------------------------------------------------- regexes
At(s, i) == IF i >= 1 /\ i <= Len(s) THEN s[i] ELSE ""

DigitsAt(s, i, n) == \A k \in i..(i + n - 1) : IsDigit(At(s, k))

\* \d{4}-\d{2}-\d{2} at position i
MatchDateAt(s, i) ==
    /\ DigitsAt(s, i, 4) /\ At(s, i + 4) = "-"
    /\ DigitsAt(s, i + 5, 2) /\ At(s, i + 7) = "-"
    /\ DigitsAt(s, i + 8, 2)

\* \d{4}-\d{2}-\d{2}[T ]\d{2}:\d{2}:\d{2} at position i
MatchDateTimeAt(s, i) ==
    /\ MatchDateAt(s, i)
    /\ At(s, i + 10) \in {"T", " "}
    /\ DigitsAt(s, i + 11, 2) /\ At(s, i + 13) = ":"
    /\ DigitsAt(s, i + 14, 2) /\ At(s, i + 16) = ":"
    /\ DigitsAt(s, i + 17, 2)

\* The position after the run of digits that starts at i.
RECURSIVE SkipDigits(_, _)
SkipDigits(s, i) == IF IsDigit(At(s, i)) THEN SkipDigits(s, i + 1) ELSE i

\* (?:\.\d+)? at position i: the position after it.
SkipFraction(s, i) ==
    IF At(s, i) = "." /\ IsDigit(At(s, i + 1)) THEN SkipDigits(s, i + 1) ELSE i

\* (?:Z|[+-]\d{2}:?\d{2})? at position i: the position after it.
SkipOffset(s, i) ==
    IF At(s, i) = "Z" THEN i + 1
    ELSE IF At(s, i) \in {"+", "-"} /\ DigitsAt(s, i + 1, 2)
         THEN IF At(s, i + 3) = ":" /\ DigitsAt(s, i + 4, 2) THEN i + 6
              ELSE IF DigitsAt(s, i + 3, 2) THEN i + 5
              ELSE i
         ELSE i

\* re.fullmatch(r"\d+(?:\.\d+)?", s)
FullMatchNumber(s) ==
    /\ IsDigit(At(s, 1))
    /\ LET p == SkipDigits(s, 1)
       IN  \/ p = Len(s) + 1
           \/ /\ At(s, p) = "." /\ IsDigit(At(s, p + 1))
              /\ SkipDigits(s, p + 1) = Len(s) + 1

\* re.search of the date-time pattern: the leftmost match's group 1, or <<>>.
SearchDateTime(s) ==
    LET starts == {i \in 1..Len(s) : MatchDateTimeAt(s, i)}
    IN  IF starts = {} THEN <<>>
        ELSE LET i == CHOOSE a \in starts : \A b \in starts : a <= b
                 e == SkipOffset(s, SkipFraction(s, i + 19))
             IN  SubSeq(s, i, e - 1)

\* re.search of the bare-date pattern: the leftmost match's group 1, or <<>>.
SearchDate(s) ==
    LET starts == {i \in 1..Len(s) : MatchDateAt(s, i)}
    IN  IF starts = {} THEN <<>>
        ELSE LET i == CHOOSE a \in starts : \A b \in starts : a <= b
             IN  SubSeq(s, i, i + 9)

\* ------------------------------------------------------- timestamp codec
\* token.replace(" ", "T")
ReplaceSpaceT(t) == [k \in 1..Len(t) |-> IF t[k] = " " THEN "T" ELSE t[k]]

\* if token.endswith("Z"): token = token[:-1] + "+00:00"
NormalizeZ(t) ==
    IF EndsWith(t, "Z")
    THEN SubSeq(t, 1, Len(t) - 1) \o <<"+", "0", "0", ":", "0", "0">>
    ELSE t

\* if re.search(r"[+-]\d{4}$", token):
\*     token = token[:-5] + token[-5:-2] + ":" + token[-2:]
NormalizeOffset(t) ==
    LET n == Len(t)
    IN  IF n >= 5 /\ t[n - 4] \in {"+", "-"} /\ DigitsAt(t, n - 3, 4)
        THEN SubSeq(t, 1, n - 2) \o <<":">> \o SubSeq(t, n - 1, n)
        ELSE t

NormalizeToken(t) == NormalizeOffset(NormalizeZ(ReplaceSpaceT(t)))

\* Faulty variant of Failed: instead of raising, the parser returns the epoch.
FailedAsEpoch == [ok |-> TRUE, ts |-> 0]

\* raise ValueError: no timestamp.
Failed == [ok |-> FALSE, ts |-> 0]

\* Seconds from the epoch to the wall-clock fields, read as UTC.
WallSeconds(y, m, d, hh, mi, ss) ==
    (Ymd2Ord(y, m, d) - EpochOrd) * 86400 + hh * 3600 + mi * 60 + ss

ValidDate(y, m, d) ==
    y >= 1 /\ m >= 1 /\ m <= 12 /\ d >= 1 /\ d <= DaysInMonth(y, m)

\* datetime.fromisoformat of a token "YYYY-MM-DDTHH:MM:SS[.f][+HH:MM]" or of
\* a bare date "YYYY-MM-DD": the wall-clock seconds, the fraction in ticks,
\* whether an offset is given, and the offset in seconds; ok is FALSE where
\* fromisoformat raises ValueError.
FromIsoFormat(t) ==
    LET bad  == [ok |-> FALSE, wall |-> 0, frac |-> 0, aware |-> FALSE, off |-> 0]
        y    == ToInt(SubSeq(t, 1, 4))
        m    == ToInt(SubSeq(t, 6, 7))
        d    == ToInt(SubSeq(t, 9, 10))
    IN  IF ~(MatchDateAt(t, 1) /\ ValidDate(y, m, d)) THEN bad
        ELSE IF Len(t) = 10
        THEN [ok |-> TRUE, wall |-> WallSeconds(y, m, d, 0, 0, 0), frac |-> 0,
              aware |-> FALSE, off |-> 0]
        ELSE IF ~(MatchDateTimeAt(t, 1) /\ t[11] = "T") THEN bad
        ELSE LET hh == ToInt(SubSeq(t, 12, 13))
                 mi == ToInt(SubSeq(t, 15, 16))
                 ss == ToInt(SubSeq(t, 18, 19))
                 pf == SkipFraction(t, 20)
                 fr == IF pf > 20 THEN FracTicks(SubSeq(t, 21, pf - 1)) ELSE 0
                 wall == WallSeconds(y, m, d, hh, mi, ss)
             IN  IF hh > 23 \/ mi > 59 \/ ss > 59 THEN bad
                 ELSE IF pf = Len(t) + 1
                 THEN [ok |-> TRUE, wall |-> wall, frac |-> fr,
                       aware |-> FALSE, off |-> 0]
                 ELSE IF /\ Len(t) = pf + 5
                         /\ t[pf] \in {"+", "-"}
                         /\ DigitsAt(t, pf + 1, 2) /\ t[pf + 3] = ":"
                         /\ DigitsAt(t, pf + 4, 2)
                 THEN LET mag == ToInt(SubSeq(t, pf + 1, pf + 2)) * 3600
                                 + ToInt(SubSeq(t, pf + 4, pf + 5)) * 60
                      IN  IF mag >= 86400 THEN bad
                          ELSE [ok |-> TRUE, wall |-> wall, frac |-> fr,
                                aware |-> TRUE,
                                off |-> IF t[pf] = "-" THEN 0 - mag ELSE mag]
                 ELSE bad

\* Faulty variant of MkTime: the wall-clock fields are read as UTC.
MkTimeAsUtc(wall, tzv) == wall

\* time.mktime(dt.timetuple()): the wall-clock fields read in the local zone.
MkTime(wall, tzv) == wall - tzv

\* Faulty variant of AwareTimestamp: the offset is applied with the wrong sign.
AwareTimestampWrongSign(wall, off) == wall + off

\* dt.timestamp() of a timezone-aware datetime, in seconds.
AwareTimestamp(wall, off) == wall - off

\* float(line) for a line matching \d+(?:\.\d+)?, in ticks.
FloatTicks(s) ==
    LET p == SkipDigits(s, 1)
    IN  ToInt(SubSeq(s, 1, p - 1)) * TicksPerSec
        + (IF p <= Len(s) THEN FracTicks(SubSeq(s, p + 1, Len(s))) ELSE 0)

\* _parse_timestamp(line) in the local zone tzv: the epoch time in ticks.
ParseTimestamp(raw, tzv) ==
    LET line == Strip(raw)
        tok  == SearchDateTime(line)
        dat  == SearchDate(line)
    IN  IF line = <<>> THEN Failed
        ELSE IF FullMatchNumber(line)
        THEN [ok |-> TRUE, ts |-> FloatTicks(line)]
        ELSE IF tok # <<>>
        THEN LET dt == FromIsoFormat(NormalizeToken(tok))
             IN  IF ~dt.ok THEN Failed
                 ELSE IF ~dt.aware
                 THEN [ok |-> TRUE,
                       ts |-> MkTime(dt.wall, tzv) * TicksPerSec + dt.frac]
                 ELSE [ok |-> TRUE,
                       ts |-> AwareTimestamp(dt.wall, dt.off) * TicksPerSec + dt.frac]
        ELSE IF dat # <<>>
        THEN LET dt == FromIsoFormat(dat)
             IN  IF ~dt.ok THEN Failed
                 ELSE [ok |-> TRUE, ts |-> MkTime(dt.wall, tzv) * TicksPerSec]
        ELSE Failed

\* _now_timestamp() at clock t (ticks) in the local zone tzv:
\* datetime.now().strftime("%Y-%m-%dT%H:%M:%S")
NowTimestamp(t, tzv) ==
    LET secs == (t \div TicksPerSec) + tzv
        day  == secs \div 86400
        sod  == secs % 86400
        ymd  == Ord2Ymd(day + EpochOrd)
    IN  Pad(ymd.y, 4) \o <<"-">> \o Pad(ymd.m, 2) \o <<"-">> \o Pad(ymd.d, 2)
        \o <<"T">> \o Pad(sod \div 3600, 2) \o <<":">>
        \o Pad((sod % 3600) \div 60, 2) \o <<":">> \o Pad(sod % 60, 2)

\* ------------------------------------------------------------ file input
DEFAULT_NOTE ==
    <<"D", "o", " ", "n", "o", "t", " ", "d", "e", "l",
      "e", "t", "e", " ", "t", "h", "e", " ", "t", "i",
      "m", "e", "s", "t", "a", "m", "p", " ", "a", "b",
      "o", "v", "e", ";", " ", "i", "t", " ", "r", "e",
      "c", "o", "r", "d", "s", " ", "t", "h", "e", " ",
      "l", "a", "s", "t", " ", "t", "i", "m", "e", " ",
      "t", "h", "i", "s", " ", "f", "i", "l", "e", " ",
      "w", "a", "s", " ", "r", "e", "a", "d", " ", "b",
      "y", " ", "a", "n", " ", "a", "g", "e", "n", "t",
      ".">>

\* open(path, "r", encoding="utf-8", errors="replace"): an undecodable
\* byte is read as U+FFFD.
Decode(bytes) ==
    [k \in 1..Len(bytes) |-> IF bytes[k] = BADBYTE THEN REPLCHAR ELSE bytes[k]]

\* Text mode with newline=None: "\r\n" and a lone "\r" are read as "\n".
\* That is: a "\n" right after a "\r" is dropped, and every "\r" becomes "\n".
NotDropped(c) == c # "dropped"

UniversalNewlines(t) ==
    SelectSeq([k \in 1..Len(t) |->
                  IF t[k] = LF /\ k > 1 /\ t[k - 1] = CR THEN "dropped"
                  ELSE IF t[k] = CR THEN LF
                  ELSE t[k]],
              NotDropped)

ReadText(bytes) == UniversalNewlines(Decode(bytes))

\* The length of the first line of text t, its "\n" included.
FirstLineLen(t) ==
    IF \E i \in 1..Len(t) : t[i] = LF
    THEN CHOOSE i \in 1..Len(t) : t[i] = LF /\ \A j \in 1..(i - 1) : t[j] # LF
    ELSE Len(t)

\* f.readline()
ReadLine(t) == SubSeq(t, 1, FirstLineLen(t))

\* f.readlines(): the lines of t, each with its "\n".
RECURSIVE ReadLines(_)
ReadLines(t) ==
    IF t = <<>> THEN <<>>
    ELSE <<ReadLine(t)>> \o ReadLines(SubSeq(t, FirstLineLen(t) + 1, Len(t)))

RECURSIVE Flatten(_)
Flatten(ls) == IF ls = <<>> THEN <<>> ELSE ls[1] \o Flatten(Tail(ls))

\* os.linesep (POSIX).
LineSep == LF

\* open(path, "w", encoding="utf-8") and write: "\n" is written as
\* os.linesep, every other character as itself.
WriteText(t) == [k \in 1..Len(t) |-> IF t[k] = LF THEN LineSep ELSE t[k]]

\* ------------------------------------------------------------- the inputs
\* an empty first line
LineEmpty == <<>>
\* a blank first line
LineBlank == <<" ">>
\* prose without a timestamp: n/a
LineProse == <<"n", "/", "a">>
\* a date-time that is no calendar date: 1970-02-30T03:00:00
LineBadDate == <<"1", "9", "7", "0", "-", "0", "2", "-", "3", "0", "T", "0", "3", ":", "0", "0", ":", "0", "0">>
\* epoch seconds: 97200
LineEpoch == <<"9", "7", "2", "0", "0">>
\* epoch seconds with a fraction: 97200.500
LineEpochFrac == <<"9", "7", "2", "0", "0", ".", "5", "0", "0">>
\* a bare date: 1970-01-02
LineDate == <<"1", "9", "7", "0", "-", "0", "1", "-", "0", "2">>
\* a bare date within prose: seen 1970-01-02
LineDateProse == <<"s", "e", "e", "n", " ", "1", "9", "7", "0", "-", "0", "1", "-", "0", "2">>
\* 03:00:00 UTC written with Z: 1970-01-02T03:00:00Z
LineZ == <<"1", "9", "7", "0", "-", "0", "1", "-", "0", "2", "T", "0", "3", ":", "0", "0", ":", "0", "0", "Z">>
\* the same instant at +01:00: 1970-01-02T04:00:00+01:00
LinePlusColon == <<"1", "9", "7", "0", "-", "0", "1", "-", "0", "2", "T", "0", "4", ":", "0", "0", ":", "0", "0", "+", "0", "1", ":", "0", "0">>
\* the same instant at +0100: 1970-01-02T04:00:00+0100
LinePlusNoColon == <<"1", "9", "7", "0", "-", "0", "1", "-", "0", "2", "T", "0", "4", ":", "0", "0", ":", "0", "0", "+", "0", "1", "0", "0">>
\* the same instant at -05:00, with a space: 1970-01-01 22:00:00-05:00
LineMinus == <<"1", "9", "7", "0", "-", "0", "1", "-", "0", "1", " ", "2", "2", ":", "0", "0", ":", "0", "0", "-", "0", "5", ":", "0", "0">>
\* a date-time without offset: 1970-01-02T03:00:00
LineNaive == <<"1", "9", "7", "0", "-", "0", "1", "-", "0", "2", "T", "0", "3", ":", "0", "0", ":", "0", "0">>

FirstLines ==
    {LineEmpty, LineBlank, LineProse, LineBadDate,
     LineEpoch, LineEpochFrac, LineDate, LineDateProse,
     LineZ, LinePlusColon, LinePlusNoColon, LineMinus,
     LineNaive}

\* What follows the first line on disk.
Tails ==
    { <<>>,
      <<LF>>,
      <<LF, "b">>,
      <<CR, LF, "b", CR, LF>>,
      <<CR, "b", BADBYTE, LF>> }

\* Every first line alone and with its newline, and two of them with every
\* tail.
Contents ==
    {f \o t : f \in FirstLines, t \in {<<>>, <<LF>>}}
    \cup {f \o t : f \in {LineEmpty, LineEpoch}, t \in Tails}

\* The local zone: seconds east of UTC.
Zones == {0, 3600}

\* --threshold, in ticks: 0 and the default 1.0.
DefaultThreshold == TicksPerSec
Thresholds == {0, DefaultThreshold}

\* The instant most of the sample lines name: 1970-01-02T03:00:00Z.
Instant == 97200 * TicksPerSec

\* The clock when the model starts: one tick short of three seconds later.
Start == Instant + 3 * TicksPerSec - 1

\* ------------------------------------------------------------------ state
VARIABLES
    exists,      \* os.path.exists(path)
    content,     \* the bytes of the file
    mtime,       \* os.path.getmtime(path), in ticks
    writer,      \* who wrote the file last: "user", "init" or "update"
    now,         \* the clock, in ticks
    tz,          \* the local zone, seconds east of UTC
    op,          \* the last command run: "none", "init", "update", "check"
    rc,          \* its exit code (-1 before any command)
    out,         \* what it printed to stdout
    err,         \* whether it wrote a diagnostic to stderr
    argForce,    \* its --force
    argThreshold,\* its --threshold, in ticks
    parsed,      \* check: the result of _parse_timestamp
    stamp,       \* init, update: the string _now_timestamp() returned
    preExists,   \* the file before the last command
    preContent,
    preMtime,
    preNow       \* the clock when the last command started

file == <<exists, content, mtime, writer>>
env == <<tz>>
last == <<op, rc, out, err, argForce, argThreshold, parsed, stamp,
          preExists, preContent, preMtime, preNow>>
vars == <<exists, content, mtime, writer, now, tz, op, rc, out, err,
          argForce, argThreshold, parsed, stamp, preExists, preContent, preMtime,
          preNow>>

\* Modification times the file may start with: at the sample instant, at
\* and just past the default threshold after it, and one hour after local
\* midnight of 1970-01-02.
StartMtimes(tzv) ==
    {Instant, Instant + DefaultThreshold, Instant + DefaultThreshold + 1,
     (86400 - tzv + 3600) * TicksPerSec}

Init ==
    /\ tz \in Zones
    /\ now = Start
    /\ \/ exists = FALSE /\ content = <<>> /\ mtime = 0
       \/ exists = TRUE /\ content \in Contents /\ mtime \in StartMtimes(tz)
    /\ writer = "user"
    /\ op = "none" /\ rc = -1 /\ out = "" /\ err = FALSE
    /\ argForce = FALSE /\ argThreshold = 0
    /\ parsed = Failed /\ stamp = <<>>
    /\ preExists = exists /\ preContent = content /\ preMtime = mtime
    /\ preNow = now

\* What every command records of the file it found.
Snapshot ==
    /\ preExists' = exists
    /\ preContent' = content
    /\ preMtime' = mtime
    /\ preNow' = now

NoCommand ==
    /\ op' = "none" /\ rc' = -1 /\ out' = "" /\ err' = FALSE
    /\ argForce' = FALSE /\ argThreshold' = 0
    /\ parsed' = Failed /\ stamp' = <<>>
    /\ Snapshot

\* Time passes.
Tick ==
    /\ now < Start + MaxTicks
    /\ now' = now + 1
    /\ NoCommand
    /\ UNCHANGED <<file, env>>

\* The user saves the file (its content as it is): the file system records
\* the clock as the modification time.
UserTouch ==
    /\ exists
    /\ mtime' = now
    /\ writer' = "user"
    /\ NoCommand
    /\ UNCHANGED <<exists, content, now, env>>

\* Faulty variant of InitText: the note is written without its newline.
InitTextNoFinalNewline(ts) == ts \o <<LF>> \o DEFAULT_NOTE

\* The content init_user_feedback writes, as text.
InitText(ts) == ts \o <<LF>> \o DEFAULT_NOTE \o <<LF>>

\* Faulty variant of InitRefuses: the existing file is never looked for.
InitRefusesNever(ex, force) == FALSE

\* if os.path.exists(path) and not force
InitRefuses(ex, force) == ex /\ ~force

\* init_user_feedback(path, force); the write is recorded d ticks after
\* _now_timestamp() read the clock.
InitUserFeedback(force, d) ==
    /\ now + d <= Start + MaxTicks
    /\ op' = "init" /\ argForce' = force /\ argThreshold' = 0
    /\ out' = "" /\ parsed' = Failed
    /\ Snapshot
    /\ IF InitRefuses(exists, force)
       THEN /\ rc' = 2 /\ err' = TRUE /\ stamp' = <<>>
            /\ d = 0
            /\ UNCHANGED <<file, now, env>>
       ELSE /\ stamp' = NowTimestamp(now, tz)
            /\ exists' = TRUE
            /\ content' = WriteText(InitText(NowTimestamp(now, tz)))
            /\ now' = now + d
            /\ mtime' = now + d
            /\ writer' = "init"
            /\ rc' = 0 /\ err' = FALSE
            /\ UNCHANGED env

\* Faulty variant of UpdateLines: the new first line always gets a newline.
UpdateLinesAlwaysNewline(lines, ts) ==
    IF lines = <<>> THEN <<ts \o <<LF>>>>
    ELSE [lines EXCEPT ![1] = ts \o <<LF>>]

\* The lines update_user_feedback writes back.
UpdateLines(lines, ts) ==
    IF lines = <<>> THEN <<ts \o <<LF>>>>
    ELSE [lines EXCEPT ![1] = ts \o (IF EndsWith(lines[1], LF) THEN <<LF>> ELSE <<>>)]

\* update_user_feedback(path); the write is recorded d ticks after
\* _now_timestamp() read the clock.
UpdateUserFeedback(d) ==
    /\ now + d <= Start + MaxTicks
    /\ op' = "update" /\ argForce' = FALSE /\ argThreshold' = 0
    /\ out' = "" /\ parsed' = Failed
    /\ Snapshot
    /\ IF ~exists
       THEN /\ rc' = 2 /\ err' = TRUE /\ stamp' = <<>>
            /\ d = 0
            /\ UNCHANGED <<file, now, env>>
       ELSE /\ stamp' = NowTimestamp(now, tz)
            /\ content' = WriteText(
                   Flatten(UpdateLines(ReadLines(ReadText(content)),
                                       NowTimestamp(now, tz))))
            /\ now' = now + d
            /\ mtime' = now + d
            /\ writer' = "update"
            /\ rc' = 0 /\ err' = FALSE
            /\ UNCHANGED <<exists, env>>

\* Faulty variant of IsNewer: the threshold is left out of the comparison.
IsNewerNoThreshold(mt, ts, threshold) == mt > ts

\* Faulty variant of IsNewer: equality counts as newer.
IsNewerOrEqual(mt, ts, threshold) == mt >= ts + threshold

\* is_newer = mtime > (ts + threshold)
IsNewer(mt, ts, threshold) == mt > ts + threshold

\* check_user_feedback(path, threshold)
CheckUserFeedback(threshold) ==
    /\ op' = "check" /\ argForce' = FALSE /\ argThreshold' = threshold
    /\ stamp' = <<>>
    /\ Snapshot
    /\ UNCHANGED <<file, now, env>>
    /\ IF ~exists
       THEN rc' = 2 /\ out' = "" /\ err' = TRUE /\ parsed' = Failed
       ELSE LET first_line == Strip(ReadLine(ReadText(content)))
                ts == ParseTimestamp(first_line, tz)
            IN  /\ parsed' = ts
                /\ IF ~ts.ok
                   THEN rc' = 2 /\ out' = "" /\ err' = TRUE
                   ELSE /\ err' = FALSE
                        /\ out' = IF IsNewer(mtime, ts.ts, threshold)
                                  THEN "true" ELSE "false"
                        /\ rc' = IF IsNewer(mtime, ts.ts, threshold) THEN 0 ELSE 1

Next ==
    \/ Tick
    \/ UserTouch
    \/ \E force \in BOOLEAN, d \in 0..MaxDelay : InitUserFeedback(force, d)
    \/ \E d \in 0..MaxDelay : UpdateUserFeedback(d)
    \/ \E threshold \in Thresholds : CheckUserFeedback(threshold)

Spec == Init /\ [][Next]_vars

\* ================================================================ claims
\* The file's first line is f: f alone, or f and its newline.
HasFirstLine(bytes, f) == bytes = f \/ bytes = f \o <<LF>>

\* The bytes that follow the first newline of the file.
RawRest(bytes) ==
    IF \E i \in 1..Len(bytes) : bytes[i] = LF
    THEN SubSeq(bytes, FirstLineLen(bytes) + 1, Len(bytes))
    ELSE <<>>

\* The first line of the file ends with a line ending (LF, CRLF or CR).
FirstLineTerminated(bytes) == \E i \in 1..Len(bytes) : bytes[i] \in {LF, CR}

\* Nothing but white space stands before the first line ending.
BlankFirstLine(bytes) ==
    \A i \in 1..Len(bytes) :
        (\A j \in 1..(i - 1) : bytes[j] \notin {LF, CR}) => IsSpace(bytes[i])

\* The start of the second in which the last command started.
PreSecond == (preNow \div TicksPerSec) * TicksPerSec

\* C1: check on an existing file whose first line parses to ts reports
\* Fresh (exit code 0, stdout "true") exactly when the modification time is
\* strictly greater than ts + threshold, and Stale (exit code 1, stdout
\* "false") otherwise; modification time = ts + threshold is Stale.
C1_FreshIffStrictlyNewer ==
    (op = "check" /\ preExists /\ parsed.ok) =>
        /\ (mtime > parsed.ts + argThreshold) => (rc = 0 /\ out = "true")
        /\ (mtime <= parsed.ts + argThreshold) => (rc = 1 /\ out = "false")
        /\ (HasFirstLine(content, LineEpoch) /\ mtime = Instant + argThreshold)
               => rc = 1

C1_Witness ==
    /\ op = "check" /\ preExists /\ parsed.ok
    /\ argThreshold = DefaultThreshold
    /\ mtime = parsed.ts + argThreshold
    /\ rc = 1 /\ out = "false"

\* C2, as stated: check with threshold 0 on a file that update wrote last
\* reports Stale, the modification time being equal to the timestamp
\* update wrote.
C2_StaleRightAfterUpdate ==
    (op = "check" /\ writer = "update" /\ argThreshold = 0) =>
        (rc = 1 /\ mtime = parsed.ts)

\* C2, amended: check with threshold 0 on a file that update wrote last
\* reads a whole-second timestamp and reports Stale exactly when the
\* modification time does not exceed it, Fresh when the write was recorded
\* later than the start of that second.
C2_StaleOnlyAtTheSecond ==
    (op = "check" /\ writer = "update" /\ argThreshold = 0) =>
        /\ parsed.ok
        /\ parsed.ts % TicksPerSec = 0
        /\ (rc = 1 /\ out = "false") <=> (mtime <= parsed.ts)
        /\ (rc = 0 /\ out = "true") <=> (mtime > parsed.ts)

C2_Witness ==
    /\ op = "check" /\ writer = "update" /\ argThreshold = 0
    /\ mtime > parsed.ts /\ mtime < parsed.ts + TicksPerSec
    /\ rc = 0 /\ out = "true"

\* The file is valid UTF-8 and its line endings are LF or CRLF, the endings
\* C3 names: no undecodable byte, and every "\r" is followed by "\n".
PlainText(bytes) ==
    \A i \in 1..Len(bytes) :
        /\ bytes[i] # BADBYTE
        /\ bytes[i] = CR => (i < Len(bytes) /\ bytes[i + 1] = LF)

\* C3, as stated: a successful update of a file with LF or CRLF line
\* endings leaves every byte after the first line as it was, line endings
\* included.
C3_RestPreservedVerbatim ==
    (op = "update" /\ rc = 0 /\ PlainText(preContent)) =>
        RawRest(content) = RawRest(preContent)

\* C4: a command that returns exit code 2 leaves the file as it was
\* (existence, content, modification time); init on an existing file
\* without --force, and update and check on a missing file, return 2.
C4_FailureLeavesFileAlone ==
    /\ (op \in {"init", "update", "check"} /\ rc = 2) =>
           (exists = preExists /\ content = preContent /\ mtime = preMtime)
    /\ (op = "init" /\ preExists /\ ~argForce) => rc = 2
    /\ (op \in {"update", "check"} /\ ~preExists) => (rc = 2 /\ ~exists)

\* init a second time, without --force, on the file init wrote.
C4_Witness ==
    /\ op = "init" /\ ~argForce /\ rc = 2 /\ err
    /\ writer = "init"
    /\ SubSeq(content, 21, 20 + Len(DEFAULT_NOTE)) = DEFAULT_NOTE
    /\ content = preContent

\* C5: check returns exit code 2 with empty stdout when the file is missing
\* or its first line does not parse (an empty file, a blank first line,
\* prose, an impossible date); stdout is "true" only with exit code 0,
\* "false" only with 1, empty only with 2.
C5_FailureIsDistinct ==
    (op = "check") =>
        /\ (~preExists \/ ~parsed.ok) => (rc = 2 /\ out = "")
        /\ (preExists /\ BlankFirstLine(content)) => rc = 2
        /\ (preExists /\ (HasFirstLine(content, LineProse)
                          \/ HasFirstLine(content, LineBadDate))) => rc = 2
        /\ rc \in {0, 1, 2}
        /\ (out = "true") <=> (rc = 0)
        /\ (out = "false") <=> (rc = 1)
        /\ (out = "") <=> (rc = 2)

\* check on an empty file.
C5_Witness ==
    /\ op = "check" /\ preExists /\ content = <<>>
    /\ rc = 2 /\ out = "" /\ err

\* C6: init succeeds when the path is absent or --force is given, and the
\* file is then exactly the two canonical lines: the timestamp of the
\* second in which init ran, in local time, and the note, each with its
\* newline.
C6_InitWritesTwoLines ==
    /\ (op = "init" /\ (~preExists \/ argForce)) => rc = 0
    /\ (op = "init" /\ rc = 0) =>
           /\ exists
           /\ Len(stamp) = 19
           /\ ParseTimestamp(stamp, tz) = [ok |-> TRUE, ts |-> PreSecond]
           /\ content = stamp \o <<LF>> \o DEFAULT_NOTE \o <<LF>>

\* init --force on an existing file of other content.
C6_Witness ==
    /\ op = "init" /\ rc = 0 /\ argForce
    /\ preExists /\ HasFirstLine(preContent, LineProse)
    /\ content = stamp \o <<LF>> \o DEFAULT_NOTE \o <<LF>>

\* C7: the four sample lines that write 1970-01-02T03:00:00 UTC with Z,
\* +01:00, +0100 and -05:00 all parse to that instant, in every local zone.
C7_SameInstantSameTimestamp ==
    (/\ op = "check" /\ preExists
     /\ \E f \in {LineZ, LinePlusColon, LinePlusNoColon, LineMinus} :
            HasFirstLine(content, f))
        => parsed = [ok |-> TRUE, ts |-> Instant]

C7_Witness ==
    /\ op = "check" /\ tz # 0
    /\ HasFirstLine(content, LinePlusNoColon)
    /\ parsed = [ok |-> TRUE, ts |-> Instant]

\* C8: a first line holding the bare date 1970-01-02 parses to local
\* midnight of that day, and with the modification time one hour after that
\* midnight check with threshold 1.0 reports Fresh.
C8_BareDateIsLocalMidnight ==
    (/\ op = "check" /\ preExists
     /\ (HasFirstLine(content, LineDate) \/ HasFirstLine(content, LineDateProse)))
        => /\ parsed = [ok |-> TRUE, ts |-> (86400 - tz) * TicksPerSec]
           /\ (/\ mtime = (86400 - tz + 3600) * TicksPerSec
               /\ argThreshold = DefaultThreshold)
                  => (rc = 0 /\ out = "true")

C8_Witness ==
    /\ op = "check" /\ tz # 0
    /\ HasFirstLine(content, LineDate)
    /\ mtime = (86400 - tz + 3600) * TicksPerSec
    /\ argThreshold = DefaultThreshold
    /\ rc = 0 /\ out = "true"

\* C9: after a successful update the file starts with the timestamp of the
\* second in which update ran, the line ends right after it, with a newline
\* exactly when the original first line had a line ending, and an empty
\* file becomes the timestamp and a newline.
C9_FirstLineReplaced ==
    (op = "update" /\ rc = 0) =>
        /\ Len(stamp) = 19
        /\ ParseTimestamp(stamp, tz) = [ok |-> TRUE, ts |-> PreSecond]
        /\ SubSeq(content, 1, 19) = stamp
        /\ Len(content) > 19 => content[20] = LF
        /\ (preContent # <<>>) =>
               (Len(content) > 19 <=> FirstLineTerminated(preContent))
        /\ (preContent = <<>>) => content = stamp \o <<LF>>

\* update of a one-line file without a newline.
C9_Witness ==
    /\ op = "update" /\ rc = 0
    /\ preContent = LineEpoch
    /\ content = stamp

\* C10, as stated: check with the default threshold on a file that init or
\* update wrote last reports Stale.
C10_StaleAfterWriteAtDefault ==
    (op = "check" /\ writer \in {"init", "update"}
     /\ argThreshold = DefaultThreshold) => rc = 1

====
